---- MODULE Spec2Model ----
(***************************************************************************)
(* Model of rs_rounding (src/src/main.rs): the string-based decimal        *)
(* rounder str_sround and the boundary-value generator RoundTestIter.      *)
(* Strings are sequences of bytes (Vec<u8>), as in the source.             *)
(***************************************************************************)
EXTENDS Integers, Sequences, FiniteSets, TLC

\* ---------------------------------------------------------------- bytes
ByteMinus == 45
ByteDot == 46
Byte0 == 48
Byte1 == 49
Byte4 == 52
Byte5 == 53
Byte9 == 57
ByteB == 98
INIT_STEP == 97
\* LAST_STEP one digit too low: '8' is taken for the last digit.
LastStepEight == Byte9 - 1

LAST_STEP == 57

\* ---------------------------------------------------------------- bounds
MaxDigits == 4
MaxPr == 2
MaxDepth == 3

\* Digits the inputs of the rounder are drawn from: an even and an odd digit
\* below '5', the tie digit '5', an even digit above '5' and the carry digit '9'.
InputDigits == {48, 49, 52, 53, 56, 57}

Policies == {"ToEven", "AwayFromZero"}

\* str_sround and its caller:
\*   n, pr, policy   the arguments of str_sround
\*   phase           where the caller stands: "input", "rounded", "rounded_twice", "panicked"
\*   out, out2       the String returned for n, and the String returned for out
\* RoundTestIter and its caller:
\*   base, precision, max   the fields of RoundTestIter
\*   negative               the flag RoundTestIter::new was given
\*   item                   what the last call of next() returned (NoItem for None)
\*   emitted_count          the number of pairs returned so far (nbr_test of find_issues)
\*   history                the pairs returned so far, in order (what the for loop of find_issues saw)
VARIABLES n, pr, policy, phase, out, out2,
          base, precision, max, negative, item, emitted_count, history

rvars == <<n, pr, policy, phase, out, out2>>
gvars == <<base, precision, max, negative, item, emitted_count, history>>
vars == <<n, pr, policy, phase, out, out2, base, precision, max, negative, item, emitted_count, history>>

\* ---------------------------------------------------------------- Vec<u8> helpers
Pop(s) == SubSeq(s, 1, Len(s) - 1)
Last(s) == s[Len(s)]
\* Truncate cutting one byte too late: the inspected digit stays.
TruncateLate(s, k) == IF k + 1 < Len(s) THEN SubSeq(s, 1, k + 1) ELSE s

Truncate(s, k) == IF k < Len(s) THEN SubSeq(s, 1, k) ELSE s

\* s.iter().position(|&x| x == b'.'): 0-based index of the first '.', -1 for None.
Position(s) ==
    IF \E i \in 1..Len(s) : s[i] = ByteDot
    THEN (CHOOSE i \in 1..Len(s) : s[i] = ByteDot /\ \A j \in 1..(i - 1) : s[j] # ByteDot) - 1
    ELSE -1

\* Nth reading one byte too far.
NthNext(s, i) == IF i >= 0 /\ i + 1 < Len(s) THEN s[i + 2] ELSE -1

\* s.iter().nth(i): the byte at 0-based index i, -1 for None.
Nth(s, i) == IF i >= 0 /\ i < Len(s) THEN s[i + 1] ELSE -1

\* PushZeros with a loop that stops one zero short.
RECURSIVE PushZerosShort(_, _)
PushZerosShort(s, k) == IF k <= 1 THEN s ELSE PushZerosShort(Append(s, Byte0), k - 1)

\* for _ in 0..k { s.push(b'0') }
RECURSIVE PushZeros(_, _)
PushZeros(s, k) == IF k <= 0 THEN s ELSE PushZeros(Append(s, Byte0), k - 1)

\* ---------------------------------------------------------------- str_sround
\* PushDigit with the ToEven arm incrementing on every tie.
PushDigitAlways(ch, ch2, frac, int, pol) == ch2 + 1

\* PushDigit with a ToEven test that forgets the '9's the carry consumed.
PushDigitNoCarry(ch, ch2, frac, int, pol) ==
    IF pol = "ToEven"
    THEN IF ch > Byte5 \/ ch2 % 2 # 0
         THEN ch2 + 1
         ELSE ch2
    ELSE ch2 + 1

\* The byte pushed back for the first digit that is neither '9' nor '.' nor '-'.
PushDigit(ch, ch2, frac, int, pol) ==
    IF pol = "ToEven"
    THEN IF ch > Byte5 \/ ch2 % 2 # 0 \/ frac # 0 \/ int # 0
         THEN ch2 + 1
         ELSE ch2
    ELSE ch2 + 1

\* IncrementLoop without the arm for '-': the sign is incremented like a digit.
RECURSIVE IncrementLoopNoSign(_, _, _)
IncrementLoopNoSign(st, ch, pol) ==
    IF Len(st.s) = 0
    THEN [st EXCEPT !.s = <<Byte1>>]
    ELSE LET top == st.s[Len(st.s)]
             rest == SubSeq(st.s, 1, Len(st.s) - 1)
         IN  IF top = Byte9 /\ st.is_frac
             THEN IncrementLoopNoSign([st EXCEPT !.s = rest, !.frac = @ + 1], ch, pol)
             ELSE IF top = ByteDot
             THEN IncrementLoopNoSign([st EXCEPT !.s = rest, !.is_frac = FALSE], ch, pol)
             ELSE IF top = Byte9 /\ ~st.is_frac
             THEN IncrementLoopNoSign([st EXCEPT !.s = rest, !.int = @ + 1], ch, pol)
             ELSE [st EXCEPT !.s = Append(rest, top + 1)]

\* IncrementLoop without the arm for a '9' of the integer part: it is incremented.
RECURSIVE IncrementLoopNoInt9(_, _, _)
IncrementLoopNoInt9(st, ch, pol) ==
    IF Len(st.s) = 0
    THEN [st EXCEPT !.s = <<Byte1>>]
    ELSE LET top == st.s[Len(st.s)]
             rest == SubSeq(st.s, 1, Len(st.s) - 1)
         IN  IF top = Byte9 /\ st.is_frac
             THEN IncrementLoopNoInt9([st EXCEPT !.s = rest, !.frac = @ + 1], ch, pol)
             ELSE IF top = ByteDot
             THEN IncrementLoopNoInt9([st EXCEPT !.s = rest, !.is_frac = FALSE], ch, pol)
             ELSE IF top = ByteMinus
             THEN [st EXCEPT !.s = rest \o <<ByteMinus, Byte1>>]
             ELSE [st EXCEPT !.s = Append(rest, top + 1)]

\* The loop that increments s: st = [s, frac, int, is_frac].
RECURSIVE IncrementLoop(_, _, _)
IncrementLoop(st, ch, pol) ==
    IF Len(st.s) = 0
    THEN [st EXCEPT !.s = <<Byte1>>]
    ELSE LET top == Last(st.s)
             rest == Pop(st.s)
         IN  IF top = Byte9 /\ st.is_frac
             THEN IncrementLoop([st EXCEPT !.s = rest, !.frac = @ + 1], ch, pol)
             ELSE IF top = ByteDot
             THEN IncrementLoop([st EXCEPT !.s = rest, !.is_frac = FALSE], ch, pol)
             ELSE IF top = Byte9 /\ ~st.is_frac
             THEN IncrementLoop([st EXCEPT !.s = rest, !.int = @ + 1], ch, pol)
             ELSE IF top = ByteMinus
             THEN [st EXCEPT !.s = rest \o <<ByteMinus, Byte1>>]
             ELSE [st EXCEPT !.s = Append(rest, PushDigit(ch, top, st.frac, st.int, pol))]

\* What follows the loop: the zeros of the integer part, the moved position,
\* the radix point and the zeros of the fractional part. Returns [s, pos].
AfterLoop(st, pos) ==
    LET s1 == IF ~st.is_frac THEN Append(PushZeros(st.s, st.int), ByteDot) ELSE st.s
        pos1 == IF ~st.is_frac THEN pos + st.int ELSE pos
    IN  [s |-> PushZeros(s1, st.frac), pos |-> pos1]

\* The branch prec > pr, after ch was read: truncation and, for ch >= '5', the increment.
RoundDigits(s, pos, p, ch, pol) ==
    LET t == Truncate(s, pos + p + 1)
    IN  IF ch >= Byte5
        THEN AfterLoop(IncrementLoop([s |-> t, frac |-> 0, int |-> 0, is_frac |-> TRUE], ch, pol), pos)
        ELSE [s |-> t, pos |-> pos]

\* RemovePoint that never removes.
RemovePointNever(s, pos) == s

\* removes '.' if no digit after
RemovePoint(s, pos) == IF Len(s) = pos + 1 THEN Pop(s) ELSE s

\* The unwrap of the inspected digit fails.
str_sround_panics(v, p) ==
    LET pos == Position(v)
    IN  /\ pos >= 0
        /\ Len(v) - pos - 1 > p
        /\ Nth(v, pos + p + 1) = -1

str_sround(v, p, pol) ==
    LET pos == Position(v)
    IN  IF pos < 0
        THEN PushZeros(Append(v, ByteDot), p)
        ELSE LET prec == Len(v) - pos - 1
             IN  IF prec < p
                 THEN RemovePoint(PushZeros(v, p - prec), pos)
                 ELSE IF prec > p
                 THEN LET r == RoundDigits(v, pos, p, Nth(v, pos + p + 1), pol)
                      IN  RemovePoint(r.s, r.pos)
                 ELSE RemovePoint(v, pos)

\* ---------------------------------------------------------------- inputs of the rounder
\* the digit strings of exactly k digits
DigitStrings(k) == [1..k -> InputDigits]
Signs == {<<>>, <<ByteMinus>>}
\* the numbers of integer and fractional digits of an input with a radix point
Shapes == {sh \in (1..MaxDigits) \X (1..MaxDigits) : sh[1] + sh[2] <= MaxDigits}
\* with a radix point: sign, integer digits, '.', fractional digits
Pointed ==
    UNION {{sg \o i \o <<ByteDot>> \o f :
                sg \in Signs, i \in DigitStrings(sh[1]), f \in DigitStrings(sh[2])} : sh \in Shapes}
\* without a radix point: sign, integer digits
Unpointed == UNION {{sg \o i : sg \in Signs, i \in DigitStrings(a)} : a \in 1..MaxDigits}
WellFormed == Pointed \cup Unpointed

\* ---------------------------------------------------------------- RoundTestIter
NoItem == <<>>

\* NewBase ignoring the sign flag.
NewBaseUnsigned(neg) == <<Byte0, ByteDot, INIT_STEP>>

\* RoundTestIter::new
NewBase(neg) == IF neg THEN <<ByteMinus, Byte0, ByteDot, INIT_STEP>> ELSE <<Byte0, ByteDot, INIT_STEP>>

\* Backtrack without the arm for LAST_STEP: a '9' is incremented like any digit.
BacktrackNoNines(b, p) ==
    IF Len(b) = 0
    THEN [base |-> b, precision |-> p]
    ELSE IF b[Len(b)] # ByteDot
    THEN [base |-> SubSeq(b, 1, Len(b) - 1) \o <<1 + b[Len(b)], INIT_STEP>>, precision |-> p + 1]
    ELSE [base |-> SubSeq(b, 1, Len(b) - 1), precision |-> p]

\* Backtrack that pops a '9' without decrementing the counter.
RECURSIVE BacktrackKeepsCount(_, _)
BacktrackKeepsCount(b, p) ==
    IF Len(b) = 0
    THEN [base |-> b, precision |-> p]
    ELSE IF b[Len(b)] = LAST_STEP
    THEN BacktrackKeepsCount(SubSeq(b, 1, Len(b) - 1), p)
    ELSE IF b[Len(b)] # ByteDot
    THEN [base |-> SubSeq(b, 1, Len(b) - 1) \o <<1 + b[Len(b)], INIT_STEP>>, precision |-> p + 1]
    ELSE [base |-> SubSeq(b, 1, Len(b) - 1), precision |-> p]

\* The backtracking loop: b = base, p = precision.
RECURSIVE Backtrack(_, _)
Backtrack(b, p) ==
    IF Len(b) = 0
    THEN [base |-> b, precision |-> p]
    ELSE LET digit == Last(b)
         IN  IF digit = LAST_STEP
             THEN Backtrack(Pop(b), p - 1)
             ELSE IF digit # ByteDot
             THEN [base |-> Pop(b) \o <<1 + digit, INIT_STEP>>, precision |-> p + 1]
             ELSE [base |-> Pop(b), precision |-> p]

\* Emitted pairing the value with the precision counter itself.
EmittedCounter(b, step, p) == <<Append(b, step - INIT_STEP + Byte4), p>>

\* The emitted pair for marker `step` popped from the buffer.
Emitted(b, step, p) == <<Append(b, step - INIT_STEP + Byte4), p - 1>>

\* ---------------------------------------------------------------- actions of the rounder
Round ==
    /\ phase = "input"
    /\ IF str_sround_panics(n, pr)
       THEN /\ phase' = "panicked"
            /\ out' = <<>>
       ELSE /\ phase' = "rounded"
            /\ out' = str_sround(n, pr, policy)
    /\ UNCHANGED <<n, pr, policy, out2>>

RoundAgain ==
    /\ phase = "rounded"
    /\ IF str_sround_panics(out, pr)
       THEN /\ phase' = "panicked"
            /\ out2' = <<>>
       ELSE /\ phase' = "rounded_twice"
            /\ out2' = str_sround(out, pr, policy)
    /\ UNCHANGED <<n, pr, policy, out>>

\* ---------------------------------------------------------------- actions of the generator
\* next(): the popped byte is the marker 'a'.
NextA ==
    /\ Len(base) > 0
    /\ Last(base) >= INIT_STEP
    /\ Last(base) # ByteB
    /\ item' = Emitted(Pop(base), Last(base), precision)
    /\ base' = Append(Pop(base), Last(base) + 1)
    /\ emitted_count' = emitted_count + 1
    /\ history' = Append(history, item')
    /\ UNCHANGED <<precision, max, negative>>

\* next(): the popped byte is the marker 'b' and precision < max.
NextBDeeper ==
    /\ Len(base) > 0
    /\ Last(base) = ByteB
    /\ precision < max
    /\ item' = Emitted(Pop(base), Last(base), precision)
    /\ base' = Pop(base) \o <<Byte0, INIT_STEP>>
    /\ precision' = precision + 1
    /\ emitted_count' = emitted_count + 1
    /\ history' = Append(history, item')
    /\ UNCHANGED <<max, negative>>

\* NextBBacktrack with a backtracking loop that has no arm for '.' and the empty
\* buffer: past the last '9' it finds no digit to increment and never returns.
NextBBacktrackSpins ==
    /\ Len(base) > 0
    /\ Last(base) = ByteB
    /\ ~(precision < max)
    /\ \E i \in 1..(Len(base) - 1) : base[i] \notin {ByteDot, LAST_STEP} /\ \A j \in (i + 1)..(Len(base) - 1) : base[j] = LAST_STEP
    /\ item' = Emitted(Pop(base), Last(base), precision)
    /\ LET r == Backtrack(Pop(base), precision - 1)
       IN  /\ base' = r.base
           /\ precision' = r.precision
    /\ emitted_count' = emitted_count + 1
    /\ history' = Append(history, item')
    /\ UNCHANGED <<max, negative>>

\* next(): the popped byte is the marker 'b' and precision = max.
NextBBacktrack ==
    /\ Len(base) > 0
    /\ Last(base) = ByteB
    /\ ~(precision < max)
    /\ item' = Emitted(Pop(base), Last(base), precision)
    /\ LET r == Backtrack(Pop(base), precision - 1)
       IN  /\ base' = r.base
           /\ precision' = r.precision
    /\ emitted_count' = emitted_count + 1
    /\ history' = Append(history, item')
    /\ UNCHANGED <<max, negative>>

\* next(): the popped byte is no marker, or the buffer is empty.
NextNone ==
    /\ IF Len(base) = 0 THEN TRUE ELSE Last(base) < INIT_STEP
    /\ item' = NoItem
    /\ base' = IF Len(base) = 0 THEN base ELSE Pop(base)
    /\ emitted_count' = emitted_count
    /\ history' = history
    /\ UNCHANGED <<precision, max, negative>>

\* ---------------------------------------------------------------- specifications
RInit ==
    /\ \/ n \in Pointed
       \/ n \in Unpointed
    /\ pr \in 0..MaxPr
    /\ policy \in Policies
    /\ phase = "input"
    /\ out = <<>>
    /\ out2 = <<>>

GInit ==
    /\ max \in 1..MaxDepth
    /\ negative \in BOOLEAN
    /\ base = NewBase(negative)
    /\ precision = 1
    /\ item = NoItem
    /\ emitted_count = 0
    /\ history = <<>>

Init ==
    /\ RInit
    /\ max = 1
    /\ negative = FALSE
    /\ base = NewBase(FALSE)
    /\ precision = 1
    /\ item = NoItem
    /\ emitted_count = 0
    /\ history = <<>>

Next ==
    \/ Round /\ UNCHANGED gvars
    \/ RoundAgain /\ UNCHANGED gvars

Spec == Init /\ [][Next]_vars

GenInit ==
    /\ GInit
    /\ n = <<Byte0>>
    /\ pr = 0
    /\ policy = "ToEven"
    /\ phase = "input"
    /\ out = <<>>
    /\ out2 = <<>>

GenNext ==
    \/ NextA /\ UNCHANGED rvars
    \/ NextBDeeper /\ UNCHANGED rvars
    \/ NextBBacktrack /\ UNCHANGED rvars
    \/ NextNone /\ UNCHANGED rvars

GenSpec == GenInit /\ [][GenNext]_vars

\* ---------------------------------------------------------------- find_issues
\* the for loop is between two pairs: before the first, or after a rounding
BetweenPairs == phase \in {"idle", "rounded"}

\* for (sval, pr) in it: the iterator returns a pair, which becomes the input of str_sround
TakePair ==
    /\ n' = item'[1]
    /\ pr' = item'[2]
    /\ phase' = "input"
    /\ UNCHANGED <<policy, out, out2>>

DriverNextA == BetweenPairs /\ NextA /\ TakePair
DriverNextBDeeper == BetweenPairs /\ NextBDeeper /\ TakePair
DriverNextBBacktrack == BetweenPairs /\ NextBBacktrack /\ TakePair

\* the iterator returns None: the loop ends
DriverDone ==
    /\ BetweenPairs
    /\ NextNone
    /\ phase' = "done"
    /\ UNCHANGED <<n, pr, policy, out, out2>>

\* let sround_val = str_sround(&sval, pr, policy)
DriverRound == Round /\ UNCHANGED gvars

DriverInit ==
    /\ GInit
    /\ policy \in Policies
    /\ phase = "idle"
    /\ n = <<Byte0>>
    /\ pr = 0
    /\ out = <<>>
    /\ out2 = <<>>

DriverNext ==
    \/ DriverNextA
    \/ DriverNextBDeeper
    \/ DriverNextBBacktrack
    \/ DriverDone
    \/ DriverRound

DriverSpec == DriverInit /\ [][DriverNext]_vars

\* The for loop of find_issues calls next() again and again: a call that can
\* return does return.
GenFairSpec == GenInit /\ [][GenNext]_vars /\ WF_vars(GenNext)

\* ---------------------------------------------------------------- reading decimal strings
IsDigit(b) == b >= Byte0 /\ b <= Byte9
Negative(s) == Len(s) > 0 /\ s[1] = ByteMinus
HasPoint(s) == \E i \in 1..Len(s) : s[i] = ByteDot
PointCount(s) == Cardinality({i \in 1..Len(s) : s[i] = ByteDot})
\* 1-based index of the first radix point of a string that has one
PointAt(s) == CHOOSE i \in 1..Len(s) : s[i] = ByteDot /\ \A j \in 1..(i - 1) : s[j] # ByteDot
FracLen(s) == IF HasPoint(s) THEN Len(s) - PointAt(s) ELSE 0
\* the digit right after the p-th fractional digit
Inspected(s, p) == s[PointAt(s) + p + 1]
\* sign, integer digits, radix point and the first p fractional digits
Kept(s, p) == SubSeq(s, 1, PointAt(s) + p)
DigitsOnly(s) == SelectSeq(s, IsDigit)
Zeros(k) == [i \in 1..k |-> Byte0]

RECURSIVE Val(_)
Val(d) == IF Len(d) = 0 THEN 0 ELSE 10 * Val(Pop(d)) + (Last(d) - Byte0)

RECURSIVE Pow10(_)
Pow10(k) == IF k <= 0 THEN 1 ELSE 10 * Pow10(k - 1)

\* the w-digit decimal text of k
RECURSIVE Text(_, _)
Text(k, w) == IF w <= 0 THEN <<>> ELSE Append(Text(k \div 10, w - 1), Byte0 + (k % 10))

\* the text of k with p fractional digits, at least w digits in all, and a sign
Rendered(neg, k, w, p) ==
    LET width == IF k >= Pow10(w) THEN w + 1 ELSE w
        d == Text(k, width)
    IN  (IF neg THEN <<ByteMinus>> ELSE <<>>) \o
        (IF p = 0 THEN d
         ELSE SubSeq(d, 1, width - p) \o <<ByteDot>> \o SubSeq(d, width - p + 1, width))

\* the value of a result in units of 10^-p, missing fractional digits read as zeros
ScaledValue(s, p) == Val(DigitsOnly(s)) * Pow10(p - FracLen(s))

Rounded == phase \in {"rounded", "rounded_twice"}
\* the input has more than pr fractional digits: the rounding branch
Rounds == HasPoint(n) /\ FracLen(n) > pr

\* ---------------------------------------------------------------- claims on str_sround
\* C1: rounding is idempotent: rounding the result again, to the same precision
\* under the same policy, gives the result back.
C1_Idempotence == phase = "rounded_twice" => out2 = out

\* C2: rounding to precision 0 leaves no radix point in the result.
C2_PointRemoval == (Rounded /\ pr = 0) => ~HasPoint(out)

\* C3: for a precision p >= 1 the result has exactly one radix point, followed by
\* exactly p digits.
C3_ResultPrecision ==
    (Rounded /\ pr >= 1) =>
        /\ PointCount(out) = 1
        /\ FracLen(out) = pr
        /\ \A i \in (PointAt(out) + 1)..Len(out) : IsDigit(out[i])

\* C4: under AwayFromZero, an inspected digit >= '5' gives the text of K+1 with p
\* fractional digits and the sign of the input, K being the number formed by the
\* integer digits and the first p fractional digits.
C4_IncrementWithCarry ==
    (Rounded /\ Rounds /\ policy = "AwayFromZero" /\ Inspected(n, pr) >= Byte5) =>
        LET kept == DigitsOnly(Kept(n, pr))
        IN  out = Rendered(Negative(n), Val(kept) + 1, Len(kept), pr)

\* the input cut after its p-th fractional digit, without the radix point when p = 0
Cut(s, p) == IF p = 0 THEN SubSeq(s, 1, PointAt(s) - 1) ELSE Kept(s, p)

C6_Padding == (Rounded /\ ~HasPoint(n)) => out = n \o <<ByteDot>> \o Zeros(pr)

C6_Witness ==
    /\ Rounded /\ pr = 2
    /\ n = <<ByteMinus, Byte5>>
    /\ out = <<ByteMinus, Byte5, ByteDot, Byte0, Byte0>>

\* C7: an inspected digit below '5' cuts the input after its p-th fractional
\* digit and changes no digit; the radix point goes too when p = 0.
C7_RoundDown == (Rounded /\ Rounds /\ Inspected(n, pr) < Byte5) => out = Cut(n, pr)

C7_Witness ==
    /\ Rounded /\ pr = 0
    /\ n = <<Byte9, Byte9, ByteDot, Byte4>>
    /\ out = <<Byte9, Byte9>>

\* C8: rounding "-" + u gives "-" followed by the rounding of u.
C8_SignPreserved ==
    (Rounded /\ ~Negative(n)) =>
        /\ ~str_sround_panics(<<ByteMinus>> \o n, pr)
        /\ str_sround(<<ByteMinus>> \o n, pr, policy) = <<ByteMinus>> \o out

C8_Witness ==
    /\ Rounded /\ pr = 1
    /\ n = <<Byte9, ByteDot, Byte9, Byte9>>
    /\ out = <<Byte1, Byte0, ByteDot, Byte0>>
    /\ str_sround(<<ByteMinus>> \o n, pr, policy) = <<ByteMinus, Byte1, Byte0, ByteDot, Byte0>>

\* C9: on a well-formed input the rounder does not fail, and its result holds
\* only digits, at most one radix point and at most one sign, which leads.
C9_TotalAndClosed ==
    /\ phase # "panicked"
    /\ Rounded =>
        /\ \A i \in 1..Len(out) : IsDigit(out[i]) \/ out[i] = ByteDot \/ (out[i] = ByteMinus /\ i = 1)
        /\ PointCount(out) <= 1

C9_Witness ==
    /\ Rounded /\ pr = 0
    /\ n = <<ByteMinus, Byte9, Byte9, ByteDot, Byte5>>
    /\ policy = "ToEven"
    /\ out = <<ByteMinus, Byte1, Byte0, Byte0, ByteDot>>

\* ---------------------------------------------------------------- claims on RoundTestIter
\* C10: every emitted pair (value, precision) has precision <= max, value has
\* exactly precision + 1 fractional digits and its last digit is '4' or '5'.
C10_Exhaustiveness ==
    item # NoItem =>
        /\ item[2] <= max
        /\ HasPoint(item[1])
        /\ FracLen(item[1]) = item[2] + 1
        /\ Last(item[1]) \in {Byte4, Byte5}
        /\ \A i \in (PointAt(item[1]) + 1)..Len(item[1]) : IsDigit(item[1][i])

C10_Witness ==
    /\ item # NoItem
    /\ max = MaxDepth
    /\ negative
    /\ item[2] = max - 1
    /\ Last(item[1]) = Byte5
    /\ item[1][Len(item[1]) - 1] = Byte9

\* ---------------------------------------------------------------- more claims on RoundTestIter
\* no marker is on top of the buffer: next() returns None from here on
Exhausted == IF Len(base) = 0 THEN TRUE ELSE Last(base) < INIT_STEP
\* the number of pairs of a full run at depth d
TotalPairs(d) == 2 * ((Pow10(d) - 1) \div 9)

\* C11: the generator terminates: whatever the depth and the sign, repeated calls
\* of next() reach the point where it returns None, and stay there.
C11_Termination == <>[]Exhausted

C11_Witness ==
    /\ Exhausted
    /\ max = MaxDepth
    /\ negative
    /\ emitted_count = TotalPairs(max)
    /\ item = NoItem

\* the pairs a run at depth d is to emit for the non-negative sign:
\* ("0." + w + e, |w|) for every digit string w of length 0..d-1 and e in {'4', '5'}
AllDigits == Byte0..Byte9
Prefixes(d) == UNION {[1..k -> AllDigits] : k \in 0..(d - 1)}
ExpectedPairs(d) ==
    {<<(<<Byte0, ByteDot>> \o w) \o <<e>>, Len(w)>> : w \in Prefixes(d), e \in {Byte4, Byte5}}
Range(h) == {h[i] : i \in 1..Len(h)}

\* C12: for the non-negative sign a full run emits exactly the expected pairs,
\* each once: 2 * (10^D - 1) / 9 pairs, none twice.
C12_Coverage ==
    (Exhausted /\ ~negative) =>
        /\ Range(history) = ExpectedPairs(max)
        /\ Len(history) = TotalPairs(max)
        /\ Cardinality(Range(history)) = Len(history)

C12_Witness ==
    /\ Exhausted
    /\ ~negative
    /\ max = MaxDepth
    /\ Len(history) = TotalPairs(MaxDepth)
    /\ item = <<<<Byte0, ByteDot>> \o [i \in 1..(MaxDepth - 1) |-> Byte9] \o <<Byte5>>, MaxDepth - 1>>

\* some emitted pair has precision q and last digit e
Covers(q, e) == \E i \in 1..Len(history) : history[i][2] = q /\ Last(history[i][1]) = e

\* C13 as stated: a full run at depth D covers every precision from 1 up to D,
\* with both the '4' and the '5' boundary digit.
C13_PrecisionRange_Stated ==
    Exhausted => \A q \in 1..max : Covers(q, Byte4) /\ Covers(q, Byte5)

\* C13 as amended: a full run at depth D covers every precision from 0 up to
\* D - 1 (values of 1 up to D fractional digits), with both the '4' and the '5'
\* boundary digit, and no other precision.
C13_PrecisionRange ==
    Exhausted =>
        /\ \A q \in 0..(max - 1) : Covers(q, Byte4) /\ Covers(q, Byte5)
        /\ \A i \in 1..Len(history) : history[i][2] \in 0..(max - 1)

C13_Witness ==
    /\ Exhausted
    /\ max = MaxDepth
    /\ Covers(0, Byte4) /\ Covers(MaxDepth - 1, Byte5)
    /\ ~Covers(MaxDepth, Byte4) /\ ~Covers(MaxDepth, Byte5)

\* what every value starts with: the sign, then "0."
ValueHead == (IF negative THEN <<ByteMinus>> ELSE <<>>) \o <<Byte0, ByteDot>>
\* the digit prefix w of an emitted pair: the fractional digits but the last
PrefixOf(it) == SubSeq(it[1], PointAt(it[1]) + 1, Len(it[1]) - 1)
\* the pair of prefix w and boundary digit e
PairOf(w, e) == <<(ValueHead \o w) \o <<e>>, Len(w)>>
RECURSIVE DropNines(_)
DropNines(w) == IF Len(w) > 0 /\ Last(w) = Byte9 THEN DropNines(Pop(w)) ELSE w
\* w without its trailing '9's and with one added to the last remaining digit
Successor(w) == Append(Pop(DropNines(w)), Last(DropNines(w)) + 1)

\* the pair that is to follow `it` in the depth-first pre-order (NoItem: the end)
Following(it) ==
    IF it = NoItem
    THEN IF emitted_count = 0 THEN PairOf(<<>>, Byte4) ELSE NoItem
    ELSE LET w == PrefixOf(it)
         IN  IF Last(it[1]) = Byte4 THEN PairOf(w, Byte5)
             ELSE IF Len(w) < max - 1 THEN PairOf(Append(w, Byte0), Byte4)
             ELSE IF DropNines(w) = <<>> THEN NoItem
             ELSE PairOf(Successor(w), Byte4)

\* C14: the pairs come in the depth-first pre-order of the digit prefixes: first
\* ("0.4", 0); after a '4' pair the '5' pair of the same prefix; after the '5'
\* pair of w the '4' pair of w + "0" when |w| < D - 1, else of the successor of
\* w; None after the '5' pair of the all-'9' prefix of length D - 1.
C14_EmissionOrder == [][item' = Following(item)]_vars

C14_Witness ==
    /\ max = MaxDepth
    /\ Len(history) >= 2
    /\ history[Len(history) - 1] =
           PairOf([i \in 1..(MaxDepth - 1) |-> IF i = 1 THEN Byte0 ELSE Byte9], Byte5)
    /\ item = PairOf(<<Byte1>>, Byte4)

\* ---------------------------------------------------------------- more claims on str_sround
\* C15: when the input has more than p fractional digits the result depends only
\* on the sign, the integer digits and the first p+1 fractional digits: it is the
\* result for the input cut after its (p+1)-th fractional digit, whatever follows.
C15_SingleDigitLookahead ==
    (Rounded /\ Rounds) =>
        /\ ~str_sround_panics(Kept(n, pr + 1), pr)
        /\ out = str_sround(Kept(n, pr + 1), pr, policy)

C15_Witness ==
    /\ Rounded /\ pr = 1 /\ policy = "ToEven"
    /\ n = <<Byte4, ByteDot, Byte4, Byte5, Byte1>>
    /\ out = <<Byte4, ByteDot, Byte4>>

\* a tie whose last kept digit is even: the one case where the policies differ
EvenTie == Rounds /\ Inspected(n, pr) = Byte5 /\ Last(DigitsOnly(Kept(n, pr))) % 2 = 0
\* the cut input with one added to its last digit
CutPlusOne(s, p) ==
    LET c == Cut(s, p)
    IN  Append(Pop(c), Last(c) + 1)

\* C16: ToEven and AwayFromZero give the same result unless the input has more
\* than p fractional digits, its inspected digit is '5' and its last kept digit
\* is even; there ToEven returns the kept digits unchanged and AwayFromZero
\* returns them incremented.
C16_PoliciesDiffer ==
    Rounded =>
        LET even == str_sround(n, pr, "ToEven")
            away == str_sround(n, pr, "AwayFromZero")
        IN  /\ out = IF policy = "ToEven" THEN even ELSE away
            /\ IF EvenTie
               THEN even = Cut(n, pr) /\ away = CutPlusOne(n, pr)
               ELSE even = away

C16_Witness ==
    /\ Rounded /\ pr = 1 /\ policy = "AwayFromZero"
    /\ n = <<Byte1, ByteDot, Byte9, Byte5>>
    /\ out = <<50, ByteDot, Byte0>>
    /\ str_sround(n, pr, "ToEven") = out

\* ---------------------------------------------------------------- the sign flag of RoundTestIter
\* the sequence of a non-negative run at depth d, from prefix w on: the two pairs
\* of w, then the sequences of w + "0", ..., w + "9"
RECURSIVE PreOrder(_, _)
RECURSIVE Children(_, _, _)
PreOrder(w, d) ==
    <<  <<(<<Byte0, ByteDot>> \o w) \o <<Byte4>>, Len(w)>>,
        <<(<<Byte0, ByteDot>> \o w) \o <<Byte5>>, Len(w)>>  >> \o
    (IF Len(w) < d - 1 THEN Children(w, d, Byte0) ELSE <<>>)
Children(w, d, k) ==
    IF k > Byte9 THEN <<>> ELSE PreOrder(Append(w, k), d) \o Children(w, d, k + 1)
\* a sequence of pairs with '-' before every value
Negated(h) == [i \in 1..Len(h) |-> <<<<ByteMinus>> \o h[i][1], h[i][2]>>]

\* C17: a full run with negative = true returns the pairs of the full run with
\* negative = false, in the same order and with the same precisions, '-' leading
\* every value; while pairs remain the buffer still starts with the sign and
\* "0.", and the last backtrack leaves the sign and "0".
C17_SignFlag ==
    /\ Exhausted =>
           history = IF negative THEN Negated(PreOrder(<<>>, max)) ELSE PreOrder(<<>>, max)
    /\ ~Exhausted => SubSeq(base, 1, Len(ValueHead)) = ValueHead
    /\ (Exhausted /\ item # NoItem) => base = Pop(ValueHead)

C17_Witness ==
    /\ Exhausted
    /\ negative
    /\ max = MaxDepth
    /\ base = <<ByteMinus, Byte0>>
    /\ Len(history) = TotalPairs(MaxDepth)
    /\ history[1] = <<<<ByteMinus, Byte0, ByteDot, Byte4>>, 0>>

\* ---------------------------------------------------------------- the precision counter
\* the number of '9's that end b
TrailingNines(b) == Len(b) - Len(DropNines(b))

\* C18: while pairs remain, the top of the buffer is the marker 'a' or 'b', the
\* counter is the number of bytes after the '.', marker included, and lies in
\* 1..max; so precision - 1 is no underflow, and a backtrack from here, which
\* decrements once and once more per trailing '9', stays at 0 or above.
C18_PrecisionCounter ==
    /\ precision >= 0
    /\ ~Exhausted =>
        /\ Last(base) \in {INIT_STEP, ByteB}
        /\ PointCount(base) = 1
        /\ precision = Len(base) - PointAt(base)
        /\ 1 <= precision /\ precision <= max
        /\ precision - 1 - TrailingNines(Pop(base)) >= 0

C18_Witness ==
    /\ Exhausted
    /\ max = MaxDepth
    /\ precision = 0
    /\ base = <<Byte0>>
    /\ item = <<<<Byte0, ByteDot>> \o [i \in 1..(MaxDepth - 1) |-> Byte9] \o <<Byte5>>, MaxDepth - 1>>
    /\ history[Len(history) - 1][2] = MaxDepth - 1

\* ---------------------------------------------------------------- generator and rounder composed
\* C19: every pair the generator returns makes str_sround take the rounding
\* branch without failing, under either policy; the result has exactly
\* `precision` fractional digits, no radix point when precision = 0, and for a
\* '4' pair it is the value cut after its kept digits.
C19_Composed ==
    /\ phase # "panicked"
    /\ phase \in {"input", "rounded"} =>
        /\ n = item[1] /\ pr = item[2]
        /\ HasPoint(n) /\ FracLen(n) > pr
        /\ ~str_sround_panics(n, pr)
    /\ phase = "rounded" =>
        /\ pr = 0 => ~HasPoint(out)
        /\ pr >= 1 =>
            /\ PointCount(out) = 1
            /\ FracLen(out) = pr
            /\ \A i \in (PointAt(out) + 1)..Len(out) : IsDigit(out[i])
        /\ Last(n) = Byte4 => out = Cut(n, pr)

C19_Witness ==
    /\ phase = "rounded"
    /\ max = MaxDepth
    /\ negative
    /\ policy = "ToEven"
    /\ n = (<<ByteMinus, Byte0, ByteDot>> \o [i \in 1..(MaxDepth - 1) |-> Byte9]) \o <<Byte5>>
    /\ pr = MaxDepth - 1
    /\ out = <<ByteMinus, Byte1, ByteDot>> \o [i \in 1..(MaxDepth - 1) |-> Byte0]

====
